---- MODULE Spec2Model ----
(***************************************************************************)
(* RTSPVideoTrack of src/rtsp_to_webrtc_server.py as a state machine.      *)
(*                                                                         *)
(* recv() is a coroutine: it runs without interruption from one await that *)
(* really suspends (the asyncio.sleep calls) to the next, so it is cut     *)
(* into steps at its sleeps; pc is the place where the in-flight call is   *)
(* suspended.  stop() may run whenever recv() is suspended or idle.        *)
(* The capture device, the frame conversion and the wall clock are the     *)
(* environment: their outcomes are chosen nondeterministically.            *)
(*                                                                         *)
(* The second part is the hand-off of src/webrtc_receiver.py: the on_track *)
(* loop of run_receiver (the producer) and display_process (the consumer,  *)
(* another process) around one multiprocessing.Queue.                      *)
(***************************************************************************)
EXTENDS Integers, Sequences, FiniteSets, TLC

\* ------------------------------------------------------------- bounds
\* The wall clock takes the values 0..MaxTime.
MaxTime == 4
\* Clock units per 90 kHz tick: time.time() is finer than a tick.
Sub == 2
\* Successful opens (capture sessions) in one run.
MaxSessions == 2
\* Valid frames read in one run (caps _frame_counter).
MaxFrames == 3
\* Frames the receiver gets from its track in one run.
MaxReceived == 7
\* Events of the standalone test loop that a behaviour follows
MaxTestEvents == 8
\* Capture sessions the standalone test loop opens
MaxTestSessions == 2

\* ---------------------------------------------------- program constants
DefaultWidth == 640
DefaultHeight == 480
MaxConsecutiveReadFailures == 10
target_fps == 15
\* mp.Queue(maxsize=5), and "while display_queue.qsize() >= 4".
\* rtsp_test.py: RECONNECT_DELAY_SECONDS
RECONNECT_DELAY_SECONDS == 5
QueueMaxsize == 5
\* display_queue.put(None): the sentinel among the numbered frames
SentinelNone == 0
EvictThreshold == 4

\* Python's None is the empty sequence and a present value x is <<x>>.
None == <<>>

\* Shapes (width, height) a decoded frame can have.
Dims == {<<640, 480>>, <<1280, 720>>}

\* The frame cap.read() hands back beside ret: None, an empty array
\* (size 0), or an image of some shape.
ReadFrames ==
    {[k |-> "none", w |-> 0, h |-> 0], [k |-> "empty", w |-> 0, h |-> 0]}
        \cup {[k |-> "image", w |-> d[1], h |-> d[2]] : d \in Dims}

\* What the conversion of a valid frame does: it succeeds, or raises.
ConvOutcomes == {"ok", "cv2_error", "value_error"}

VARIABLES
    cap,                        \* self.cap: None or the id of a VideoCapture
    nOpened,                    \* sessions opened so far; they are 1..nOpened
    released,                   \* released[s]: times release() ran on session s
    _start_time,                \* self._start_time: None or a clock reading
    _consecutive_read_failures, \* self._consecutive_read_failures
    _frame_counter,             \* self._frame_counter
    frame_width,                \* self.frame_width
    frame_height,               \* self.frame_height
    placeholder_frame,          \* self.placeholder_frame: None or the cached frame object
    stopped,                    \* the track has been stopped (super().stop())
    pc,                         \* where the in-flight recv() is suspended, or "idle"
    now,                        \* the wall clock, time.time()
    lastFrame,                  \* what the last completed recv() returned, as returned
    prevFrame,                  \* what the recv() before it returned, as returned
    callOpens,                  \* open attempts made by the current/last recv()
    callReads,                  \* cap.read() calls made by the current/last recv()
    lastRealDims,               \* shape of the last real frame returned, or the default
    ioAfterStop,                \* an open or read was made after stop()
    escalated,                  \* the "Max consecutive read failures" error was logged
    lastWait,                   \* ms of the sleep the current/last recv() completed last (0: none)
    synthSinceResize,           \* placeholder images created since the shape last changed
    failStreak                  \* None (not counted), or <<n>>: n calls in a row whose
                                \* open or read failed, counted up to the threshold + 1

trackVars == <<cap, nOpened, released, _start_time, _consecutive_read_failures,
               _frame_counter, frame_width, frame_height, placeholder_frame, stopped,
               pc, now, lastFrame, prevFrame, callOpens, callReads, lastRealDims,
               ioAfterStop, escalated, lastWait, synthSinceResize, failStreak>>

\* The receiver's hand-off to the display process.
VARIABLES
    feed,          \* frames put on the queue and not yet written to its pipe
                   \* (the queue's buffer, emptied by its feeder thread)
    pipe,          \* frames in the queue's pipe, oldest first
    rlock,         \* the queue's read lock is held (by display_process in get)
    nReceived,     \* frames on_track got from track.recv(); they are 1..nReceived
    prodPc,        \* where the on_track loop is
    dispPc,        \* where display_process is
    stop_event,    \* stop_event.is_set()
    displayed,     \* the frames display_process has shown, in order
    droppedNewest  \* put_nowait raised queue.Full: the frame just received was dropped

queueVars == <<feed, pipe, rlock, nReceived, prodPc, dispPc, stop_event,
               displayed, droppedNewest>>

\* --- the receiver's cleanup (src/webrtc_receiver.py, run_receiver, finally)
VARIABLES
    cleanPc        \* "run": not started, "put": at display_queue.put(None),
                   \* "join": at display_proc.join(timeout=2.0), "done"

shutdownVars == <<cleanPc>>

\* --- the standalone RTSP test loop (src/rtsp_test.py, main)
VARIABLES
    testCap,       \* main's cap: None or <<id>> of a capture session
    testOpened,    \* capture sessions opened so far
    testReleased,  \* id -> number of cap.release() calls on that session
    testPc,        \* "top" (line 27), "read" (line 33), "sleep" (lines 30, 40),
                   \* "show" (line 45), "exited"
    testLog,       \* what the loop did, in order: [ev, secs]
    readOnClosed   \* cap.read() was called on a capture that was not open

testVars == <<testCap, testOpened, testReleased, testPc, testLog, readOnClosed>>

vars == <<trackVars, queueVars, shutdownVars, testVars>>

\* A returned frame as the caller got it; cached tells that the object is
\* the one self.placeholder_frame still holds.
NoFrame == [kind |-> "none", via |-> "none", pts |-> 0, w |-> 0, h |-> 0,
            cached |-> FALSE]

\* int(x / d) of Python: truncation towards zero.
IntTrunc(n, d) == IF n >= 0 THEN n \div d ELSE -((-n) \div d)

\* int(elapsed_time * 90000), the clock counted in 1/(90000*Sub) s.
Pts(t, st) == IntTrunc(t - st, Sub)

\* self.cap and self.cap.isOpened()
CapIsOpened(c, rel) == c # None /\ rel[c[1]] = 0

\* Whether _ensure_capture_started makes an open attempt: whenever no
\* capture is open, whatever the failure counter.  (AttemptUnlessFailed is
\* the faulty variant that gives up after a failure.)
AttemptUnlessFailed(isOpen, failures) == ~isOpen /\ failures = 0
ShouldAttempt(isOpen, failures) == ~isOpen

\* _consecutive_read_failures after a successful open.
\* (CounterKeptOnOpen is the faulty variant without the reset.)
CounterKeptOnOpen(c) == c
CounterAfterOpen(c) == 0

\* if self.placeholder_frame is None: a new black image is created.
\* (AlwaysNeedsTemplate is the faulty variant that creates one every time.)
AlwaysNeedsTemplate(ph) == TRUE
NeedsTemplate(ph) == ph = None

\* The sleep recv() is suspended in at place p, in ms: asyncio.sleep(0.1)
\* in the read-failure branch, asyncio.sleep(1.0 / self.target_fps)
\* elsewhere.  (SleepMsUnpaced is the faulty variant whose exception
\* handler does not wait.)
SleepMsUnpaced(p) == IF p = "sleep_read" THEN 100
                     ELSE IF p = "sleep_conv" THEN 0 ELSE 1000 \div target_fps
SleepMs(p) == IF p = "sleep_read" THEN 100 ELSE 1000 \div target_fps

\* The failure streak after one more call whose open or read failed.
StreakUp(fs) ==
    IF fs = None THEN None
    ELSE <<IF fs[1] > MaxConsecutiveReadFailures THEN fs[1] ELSE fs[1] + 1>>

\* The failure streak after a valid frame was read.
StreakReset(fs) == IF fs = None THEN None ELSE <<0>>

\* _start_time after an open attempt made at time t.  (EpochOnEveryOpen and
\* EpochOnAnyAttempt are faulty variants: the epoch reset by every successful
\* open, and set before the open is known to have succeeded.)
EpochOnEveryOpen(st, t, opened) == IF opened THEN <<t>> ELSE st
EpochOnAnyAttempt(st, t, opened) == IF st = None THEN <<t>> ELSE st
EpochAfterOpen(st, t, opened) == IF opened /\ st = None THEN <<t>> ELSE st

\* "if self._start_time is None: self._start_time = current_time" when stamping.
EpochOnStamp(st, t) == IF st = None THEN <<t>> ELSE st

\* What _ensure_capture_started returns after an open attempt.
\* (EnsureAlwaysTrue is the faulty variant without "return False".)
EnsureAlwaysTrue(opened) == TRUE
EnsureResult(opened) == opened

\* if not ret or frame is None or frame.size == 0
ReadFailed(ret, frame) == ~ret \/ frame.k = "none" \/ frame.k = "empty"

\* self.cap after the read-failure branch has released it.
\* (CapKept is the faulty variant without "self.cap = None".)
CapKept(c) == c
CapAfterReadFailure(c) == None

\* self.placeholder_frame after a real frame of another shape.
\* (PlaceholderKept is the faulty variant that keeps the cached frame.)
PlaceholderKept(ph) == ph
PlaceholderAfterResize(ph) == None

\* "except Exception": which conversion failures the handler catches.
\* (CaughtCvOnly is the faulty variant "except cv2.error".)
CaughtCvOnly(e) == e = "cv2_error"
Caught(e) == e \in {"cv2_error", "value_error"}

\* cap.release() on the session c holds.
Release(rel, c) == IF c = None THEN rel ELSE [rel EXCEPT ![c[1]] = @ + 1]

TrackInit ==
    /\ cap = None
    /\ nOpened = 0
    /\ released = [s \in 1..MaxSessions |-> 0]
    /\ _start_time = None
    /\ _consecutive_read_failures = 0
    /\ _frame_counter = 0
    /\ frame_width = DefaultWidth
    /\ frame_height = DefaultHeight
    /\ placeholder_frame = None
    /\ stopped = FALSE
    /\ pc = "idle"
    /\ now = 0
    /\ lastFrame = NoFrame
    /\ prevFrame = NoFrame
    /\ callOpens = 0
    /\ callReads = 0
    /\ lastRealDims = <<DefaultWidth, DefaultHeight>>
    /\ ioAfterStop = FALSE
    /\ escalated = FALSE
    /\ lastWait = 0
    /\ synthSinceResize = 0

QueueInit ==
    /\ feed = <<>>
    /\ pipe = <<>>
    /\ rlock = FALSE
    /\ nReceived = 0
    /\ prodPc = "recv"
    /\ dispPc = "loop"
    /\ stop_event = FALSE
    /\ displayed = <<>>
    /\ droppedNewest = FALSE

ShutdownInit == cleanPc = "run"

\* main: "cap = None" before the loop.
TestInit ==
    /\ testCap = None
    /\ testOpened = 0
    /\ testReleased = [i \in 1..MaxTestSessions |-> 0]
    /\ testPc = "top"
    /\ testLog = <<>>
    /\ readOnClosed = FALSE

Init ==
    /\ TrackInit
    /\ failStreak = None
    /\ QueueInit
    /\ ShutdownInit
    /\ TestInit

\* ------------------------------------------------------------- recv()
\* The frame object _create_black_frame stamps: the cached one, or a new
\* black image of the current frame_width x frame_height.
BlackFrameObject(ph, w, h) ==
    IF NeedsTemplate(ph) THEN [w |-> w, h |-> h, pts |-> 0] ELSE ph[1]

\* The returned frame f once self.placeholder_frame is ph2: it is no longer
\* the cached object when the cache was dropped.
StillCached(f, ph2) == [f EXCEPT !.cached = f.cached /\ ph2 # None]

\* recv() from its start to its first sleep or to its return: the open
\* attempt of _ensure_capture_started (outcome openOk), cap.read()
\* (outcome ret, frame) and the conversion of a valid frame (outcome conv).
RecvStart(openOk, ret, frame, conv) ==
    /\ pc = "idle"
    /\ LET isOpen  == CapIsOpened(cap, released)
           attempt == ShouldAttempt(isOpen, _consecutive_read_failures)
           opened  == attempt /\ openOk
           cap1    == IF attempt THEN (IF openOk THEN <<nOpened + 1>> ELSE None)
                      ELSE cap
           crf1    == IF opened THEN CounterAfterOpen(_consecutive_read_failures)
                      ELSE _consecutive_read_failures
           st1     == IF attempt THEN EpochAfterOpen(_start_time, now, openOk)
                      ELSE _start_time
           started == IF attempt THEN EnsureResult(openOk) ELSE isOpen
           branch  == IF ~started THEN "open_fail"
                      ELSE IF cap1 = None THEN "no_cap"
                      ELSE IF ReadFailed(ret, frame) THEN "read_fail"
                      ELSE IF conv = "ok" THEN "real"
                      ELSE IF Caught(conv) THEN "conv_fail"
                      ELSE "raise"
           valid   == branch \in {"real", "conv_fail", "raise"}
           st2     == IF branch = "real" THEN EpochOnStamp(st1, now) ELSE st1
           resized == branch = "real"
                      /\ (frame.h # frame_height \/ frame.w # frame_width)
           out     == IF branch = "real"
                      THEN [kind |-> "real", via |-> "real",
                            pts |-> Pts(now, st2[1]), w |-> frame.w, h |-> frame.h,
                            cached |-> FALSE]
                      ELSE [kind |-> "exception", via |-> branch,
                            pts |-> 0, w |-> 0, h |-> 0, cached |-> FALSE]
           ph2     == IF resized THEN PlaceholderAfterResize(placeholder_frame)
                      ELSE placeholder_frame
           returns == branch \in {"real", "no_cap", "raise"}
       IN  /\ opened => nOpened < MaxSessions
           /\ valid => _frame_counter < MaxFrames
           /\ nOpened' = IF opened THEN nOpened + 1 ELSE nOpened
           /\ callOpens' = IF attempt THEN 1 ELSE 0
           /\ callReads' = IF branch = "open_fail" THEN 0 ELSE 1
           /\ ioAfterStop' = (ioAfterStop \/ (stopped /\ (attempt \/ branch # "open_fail")))
           /\ _start_time' = st2
           /\ _consecutive_read_failures' =
                 IF branch = "read_fail" THEN crf1 + 1
                 ELSE IF valid THEN 0 ELSE crf1
           /\ released' = IF branch = "read_fail" THEN Release(released, cap1)
                          ELSE released
           /\ cap' = IF branch = "read_fail" THEN CapAfterReadFailure(cap1) ELSE cap1
           /\ _frame_counter' = IF valid THEN _frame_counter + 1 ELSE _frame_counter
           /\ frame_width' = IF resized THEN frame.w ELSE frame_width
           /\ frame_height' = IF resized THEN frame.h ELSE frame_height
           /\ placeholder_frame' = ph2
           /\ synthSinceResize' = IF resized THEN 0 ELSE synthSinceResize
           /\ lastWait' = 0
           /\ failStreak' = IF branch \in {"open_fail", "read_fail"}
                             THEN StreakUp(failStreak)
                             ELSE IF valid THEN StreakReset(failStreak)
                             ELSE failStreak
           /\ lastRealDims' = IF branch = "real" THEN <<frame.w, frame.h>>
                              ELSE lastRealDims
           /\ pc' = CASE branch = "open_fail" -> "sleep_open"
                      [] branch = "read_fail" -> "sleep_read"
                      [] branch = "conv_fail" -> "sleep_conv"
                      [] OTHER -> "idle"
           /\ lastFrame' = IF returns THEN out ELSE StillCached(lastFrame, ph2)
           /\ prevFrame' = IF returns THEN StillCached(lastFrame, ph2)
                            ELSE StillCached(prevFrame, ph2)
    /\ UNCHANGED <<stopped, now, escalated,
                   queueVars, shutdownVars,
                   testVars>>

\* "return self._create_black_frame()" of the fallback path `via`.
ReturnBlackFrame(via) ==
    LET ph0 == BlackFrameObject(placeholder_frame, frame_width, frame_height)
        st  == EpochOnStamp(_start_time, now)
        ph1 == [ph0 EXCEPT !.pts = Pts(now, st[1])]
    IN  /\ placeholder_frame' = <<ph1>>
        /\ _start_time' = st
        /\ lastFrame' = [kind |-> "placeholder", via |-> via,
                         pts |-> ph1.pts, w |-> ph1.w, h |-> ph1.h,
                         cached |-> TRUE]
        /\ prevFrame' = lastFrame
        /\ synthSinceResize' = IF NeedsTemplate(placeholder_frame)
                                THEN synthSinceResize + 1 ELSE synthSinceResize
        /\ lastWait' = SleepMs(pc)
        /\ pc' = "idle"
        /\ UNCHANGED <<cap, nOpened, released, _consecutive_read_failures,
                       _frame_counter, frame_width, frame_height, stopped, now,
                       callOpens, callReads, lastRealDims, ioAfterStop, escalated,
                       failStreak,
                   queueVars, shutdownVars,
                   testVars>>

\* recv() resumed from the sleep of the capture-not-started branch.
ResumeOpenFailure ==
    /\ pc = "sleep_open"
    /\ ReturnBlackFrame("open_fail")

\* recv() resumed from the first sleep (0.1 s) of the read-failure branch:
\* the threshold is compared, then the pacing sleep starts.
ResumeReadFailure ==
    /\ pc = "sleep_read"
    /\ escalated' = (escalated
                     \/ _consecutive_read_failures > MaxConsecutiveReadFailures)
    /\ pc' = "sleep_read_pace"
    /\ lastWait' = SleepMs(pc)
    /\ UNCHANGED <<cap, nOpened, released, _start_time, _consecutive_read_failures,
                   _frame_counter, frame_width, frame_height, placeholder_frame,
                   stopped, now, lastFrame, prevFrame, callOpens, callReads,
                   lastRealDims, ioAfterStop, synthSinceResize, failStreak,
                   queueVars, shutdownVars,
                   testVars>>

\* recv() resumed from the pacing sleep of the read-failure branch.
ResumeReadFailurePaced ==
    /\ pc = "sleep_read_pace"
    /\ ReturnBlackFrame("read_fail")

\* recv() resumed from the sleep of the exception handler.
ResumeConvFailure ==
    /\ pc = "sleep_conv"
    /\ ReturnBlackFrame("conv_fail")

\* ------------------------------------------------------------- stop()
Stop ==
    /\ stopped' = TRUE
    /\ released' = Release(released, cap)
    /\ cap' = None
    /\ UNCHANGED <<nOpened, _start_time, _consecutive_read_failures, _frame_counter,
                   frame_width, frame_height, placeholder_frame, pc, now, lastFrame,
                   prevFrame, callOpens, callReads, lastRealDims, ioAfterStop,
                   escalated, lastWait, synthSinceResize, failStreak,
                   queueVars, shutdownVars,
                   testVars>>

\* -------------------------------------------------------- the wall clock
\* time.time() moves forward.
Tick ==
    /\ now < MaxTime
    /\ now' = now + 1
    /\ UNCHANGED <<cap, nOpened, released, _start_time, _consecutive_read_failures,
                   _frame_counter, frame_width, frame_height, placeholder_frame,
                   stopped, pc, lastFrame, prevFrame, callOpens, callReads,
                   lastRealDims, ioAfterStop, escalated, lastWait,
                   synthSinceResize, failStreak,
                   queueVars, shutdownVars,
                   testVars>>

\* time.time() is set back (the system clock is adjusted).
ClockSkew ==
    /\ now > 0
    /\ \E t \in 0..(now - 1) : now' = t
    /\ UNCHANGED <<cap, nOpened, released, _start_time, _consecutive_read_failures,
                   _frame_counter, frame_width, frame_height, placeholder_frame,
                   stopped, pc, lastFrame, prevFrame, callOpens, callReads,
                   lastRealDims, ioAfterStop, escalated, lastWait,
                   synthSinceResize, failStreak,
                   queueVars, shutdownVars,
                   testVars>>

\* A recv() call with every outcome of the environment.  An outcome the
\* call does not consume is not varied: the open outcome when the capture
\* is already open, the conversion outcome when the read failed.
Recv ==
    \E openOk \in (IF CapIsOpened(cap, released) THEN {TRUE} ELSE BOOLEAN) :
        \E ret \in BOOLEAN, frame \in ReadFrames :
            \E conv \in (IF ReadFailed(ret, frame) THEN {"ok"} ELSE ConvOutcomes) :
                RecvStart(openOk, ret, frame, conv)

Next ==
    \/ Recv
    \/ ResumeOpenFailure
    \/ ResumeReadFailure
    \/ ResumeReadFailurePaced
    \/ ResumeConvFailure
    \/ Stop
    \/ Tick

\* The track with a wall clock that never goes backwards.
Spec == Init /\ [][Next]_vars

NextSkew == Next \/ ClockSkew

\* The track with a wall clock that may also be set back.
SpecSkew == Init /\ [][NextSkew]_vars

\* The track with its failure streak counted and the clock left alone: the
\* runs of failing calls that the escalation threshold is about.
InitEsc ==
    /\ TrackInit
    /\ failStreak = <<0>>
    /\ QueueInit
    /\ ShutdownInit
    /\ TestInit

NextEsc ==
    \/ Recv
    \/ ResumeOpenFailure
    \/ ResumeReadFailure
    \/ ResumeReadFailurePaced
    \/ ResumeConvFailure
    \/ Stop

SpecEsc == InitEsc /\ [][NextEsc]_vars

\* ------------------------------------------- the receiver's hand-off queue
\* multiprocessing.Queue as the library documents it: put() takes one of
\* maxsize slots and leaves the object in a buffer that a feeder thread
\* writes to the pipe; qsize() counts the slots taken; get() takes the read
\* lock and reads the pipe, and get_nowait() raises queue.Empty when the
\* lock is held or the pipe is (still) empty.

\* display_queue.qsize()
Qsize(f, p) == Len(f) + Len(p)

\* while display_queue.qsize() >= 4
MustEvict(f, p) == Qsize(f, p) >= EvictThreshold

\* put_nowait raises queue.Full
QueueFull(f, p) == Qsize(f, p) >= QueueMaxsize

\* get_nowait raises queue.Empty
GetNowaitEmpty(p, locked) == locked \/ p = <<>>

\* The buffer after put_nowait(x).  (EnqueueFront is the faulty variant
\* that puts the newest frame first.)
EnqueueFront(f, x) == <<x>> \o f
Enqueue(f, x) == Append(f, x)

\* The feeder thread writes the oldest buffered frame to the pipe.
Feeder ==
    /\ feed # <<>>
    /\ pipe' = Append(pipe, Head(feed))
    /\ feed' = Tail(feed)
    /\ UNCHANGED <<trackVars, rlock, nReceived, prodPc, dispPc, stop_event,
                   displayed, droppedNewest, shutdownVars,
                   testVars>>

\* on_track: "frame = await track.recv()" and the test that sends the frame
\* to the display process; with stop_event set the frame goes to disk.
ProducerReceive ==
    /\ prodPc = "recv"
    /\ nReceived < MaxReceived
    /\ nReceived' = nReceived + 1
    /\ prodPc' = IF stop_event THEN "recv" ELSE "check"
    /\ UNCHANGED <<trackVars, feed, pipe, rlock, dispPc, stop_event, displayed,
                   droppedNewest, shutdownVars,
                   testVars>>

\* on_track: one test of "while display_queue.qsize() >= 4".
ProducerCheck ==
    /\ prodPc = "check"
    /\ prodPc' = IF MustEvict(feed, pipe) THEN "evict" ELSE "put"
    /\ UNCHANGED <<trackVars, feed, pipe, rlock, nReceived, dispPc, stop_event,
                   displayed, droppedNewest, shutdownVars,
                   testVars>>

\* on_track: display_queue.get_nowait() in the loop; queue.Empty breaks it.
ProducerEvict ==
    /\ prodPc = "evict"
    /\ IF GetNowaitEmpty(pipe, rlock)
       THEN /\ prodPc' = "put"
            /\ pipe' = pipe
       ELSE /\ prodPc' = "check"
            /\ pipe' = Tail(pipe)
    /\ UNCHANGED <<trackVars, feed, rlock, nReceived, dispPc, stop_event,
                   displayed, droppedNewest, shutdownVars,
                   testVars>>

\* on_track: display_queue.put_nowait(frame_data), "except queue.Full", and
\* the stop_event test that ends the loop.
ProducerPut ==
    /\ prodPc = "put"
    /\ IF QueueFull(feed, pipe)
       THEN /\ feed' = feed
            /\ droppedNewest' = TRUE
       ELSE /\ feed' = Enqueue(feed, nReceived)
            /\ droppedNewest' = droppedNewest
    /\ prodPc' = IF stop_event THEN "done" ELSE "recv"
    /\ UNCHANGED <<trackVars, pipe, rlock, nReceived, dispPc, stop_event, displayed, shutdownVars,
                   testVars>>

\* display_process: "while not stop_event.is_set()" and the start of
\* frame_queue.get(timeout=0.1), which takes the read lock.
DisplayLoop ==
    /\ dispPc = "loop"
    /\ IF stop_event
       THEN /\ dispPc' = "exit"
            /\ rlock' = rlock
       ELSE /\ dispPc' = "get"
            /\ rlock' = TRUE
    /\ UNCHANGED <<trackVars, feed, pipe, nReceived, prodPc, stop_event, displayed,
                   droppedNewest, shutdownVars,
                   testVars>>

\* "if frame_data is None": what get() returned is the sentinel.
IsSentinel(p) == p # <<>> /\ Head(p) = SentinelNone

\* display_process: get(timeout=0.1) returns the oldest item of the pipe or
\* times out with queue.Empty; either way the lock is released.  The
\* sentinel ends the loop at once; a frame is shown; after a frame and after
\* a timeout the 'q' key (quit) may be pressed.
DisplayGet(quit) ==
    /\ dispPc = "get"
    /\ rlock' = FALSE
    /\ pipe' = IF pipe = <<>> THEN pipe ELSE Tail(pipe)
    /\ displayed' = IF pipe = <<>> \/ IsSentinel(pipe)
                    THEN displayed
                    ELSE Append(displayed, Head(pipe))
    /\ stop_event' = (stop_event \/ (quit /\ ~IsSentinel(pipe)))
    /\ dispPc' = IF quit \/ IsSentinel(pipe) THEN "exit" ELSE "loop"
    /\ UNCHANGED <<trackVars, feed, nReceived, prodPc, droppedNewest, shutdownVars,
                   testVars>>

Display == \E quit \in BOOLEAN : DisplayGet(quit)

NextQueue ==
    \/ ProducerReceive
    \/ ProducerCheck
    \/ ProducerEvict
    \/ ProducerPut
    \/ Feeder
    \/ DisplayLoop
    \/ Display

\* The receiver's producer and the display process, in every interleaving.
SpecQueue == Init /\ [][NextQueue]_vars

\* The same with a feeder thread that is never behind: it has written every
\* buffered frame to the pipe before the next frame arrives from the track.
ProducerReceiveFlushed ==
    /\ feed = <<>>
    /\ ProducerReceive

NextQueueFlushed ==
    \/ ProducerReceiveFlushed
    \/ ProducerCheck
    \/ ProducerEvict
    \/ ProducerPut
    \/ Feeder
    \/ DisplayLoop
    \/ Display

SpecQueueFlushed == Init /\ [][NextQueueFlushed]_vars

\* ------------------------------------------------- the receiver's cleanup
\* run_receiver's finally block runs on the event loop, so it starts while
\* the on_track loop is suspended in "await track.recv()" or has ended, and
\* the loop does not run again before the block is through.

\* Whether display_queue.put(None), a blocking put without timeout, has to
\* wait: no slot is free.
PutBlocks(f, p) == QueueFull(f, p)

\* finally: "stop_event.set()"
CleanupStart ==
    /\ cleanPc = "run"
    /\ prodPc \in {"recv", "done"}
    /\ stop_event' = TRUE
    /\ cleanPc' = "put"
    /\ UNCHANGED <<trackVars, feed, pipe, rlock, nReceived, prodPc, dispPc,
                   displayed, droppedNewest,
                   testVars>>

\* finally: "display_queue.put(None)" returns once a slot is free.
CleanupPut ==
    /\ cleanPc = "put"
    /\ ~PutBlocks(feed, pipe)
    /\ feed' = Enqueue(feed, SentinelNone)
    /\ cleanPc' = "join"
    /\ UNCHANGED <<trackVars, pipe, rlock, nReceived, prodPc, dispPc, stop_event,
                   displayed, droppedNewest,
                   testVars>>

\* finally: "display_proc.join(timeout=2.0)" returns when the display
\* process has exited or the timeout is over, and a process still alive is
\* terminated (a read lock it holds stays held).
CleanupJoin ==
    /\ cleanPc = "join"
    /\ dispPc' = IF dispPc = "exit" THEN "exit" ELSE "terminated"
    /\ cleanPc' = "done"
    /\ UNCHANGED <<trackVars, feed, pipe, rlock, nReceived, prodPc, stop_event,
                   displayed, droppedNewest,
                   testVars>>

\* Producer, feeder thread, display process and cleanup, in every
\* interleaving the event loop allows.
NextShutdown ==
    \/ cleanPc = "run" /\ ProducerReceive
    \/ ProducerCheck
    \/ ProducerEvict
    \/ ProducerPut
    \/ Feeder
    \/ DisplayLoop
    \/ Display
    \/ CleanupStart
    \/ CleanupPut
    \/ CleanupJoin

SpecShutdown == Init /\ [][NextShutdown]_vars

\* The same with a feeder thread that is never behind.
NextShutdownFlushed ==
    \/ cleanPc = "run" /\ ProducerReceiveFlushed
    \/ ProducerCheck
    \/ ProducerEvict
    \/ ProducerPut
    \/ Feeder
    \/ DisplayLoop
    \/ Display
    \/ CleanupStart
    \/ CleanupPut
    \/ CleanupJoin

SpecShutdownFlushed == Init /\ [][NextShutdownFlushed]_vars

\* ------------------------------------------ the standalone RTSP test loop
\* main() of rtsp_test.py runs alone on one thread; each action is one of
\* its blocking calls with the branch that follows it.

TestEvent(e, n) == [ev |-> e, secs |-> n]

\* "if cap is None or not cap.isOpened()"
NeedsConnect(c, rel) == ~CapIsOpened(c, rel)

\* The time.sleep after a failure.  (DelayAfterConnectOnly is the faulty
\* variant that reconnects at once after a failed read.)
DelayAfterConnectOnly(e) == IF e = "connect_fail" THEN RECONNECT_DELAY_SECONDS ELSE 0
DelayAfter(e) == RECONNECT_DELAY_SECONDS

\* main: the test at the top of the loop, connect_to_rtsp when it is needed
\* and the branch on its result.
TestTop(openOk) ==
    /\ testPc = "top"
    /\ Len(testLog) < MaxTestEvents
    /\ IF NeedsConnect(testCap, testReleased)
       THEN IF openOk /\ testOpened < MaxTestSessions
            THEN /\ testOpened' = testOpened + 1
                 /\ testCap' = <<testOpened + 1>>
                 /\ testPc' = "read"
                 /\ testLog' = Append(testLog, TestEvent("connect_ok", 0))
            ELSE /\ testOpened' = testOpened
                 /\ testCap' = None
                 /\ testPc' = "sleep"
                 /\ testLog' = Append(testLog, TestEvent("connect_fail", 0))
       ELSE /\ testPc' = "read"
            /\ UNCHANGED <<testCap, testOpened, testLog>>
    /\ UNCHANGED <<trackVars, queueVars, shutdownVars, testReleased, readOnClosed>>

\* main: "ret, frame = cap.read()" and the "if not ret" branch up to its
\* sleep.
TestRead(ret) ==
    /\ testPc = "read"
    /\ Len(testLog) < MaxTestEvents
    /\ readOnClosed' = (readOnClosed \/ ~CapIsOpened(testCap, testReleased))
    /\ IF ret /\ CapIsOpened(testCap, testReleased)
       THEN /\ testPc' = "show"
            /\ testLog' = Append(testLog, TestEvent("read_ok", 0))
            /\ UNCHANGED <<testCap, testReleased>>
       ELSE /\ testReleased' = Release(testReleased, testCap)
            /\ testCap' = None
            /\ testPc' = "sleep"
            /\ testLog' = Append(testLog, TestEvent("read_fail", 0))
    /\ UNCHANGED <<trackVars, queueVars, shutdownVars, testOpened>>

\* main: "time.sleep(RECONNECT_DELAY_SECONDS)" and "continue", after a
\* failed connect and after a failed read.
TestSleep ==
    /\ testPc = "sleep"
    /\ Len(testLog) < MaxTestEvents
    /\ testLog' = Append(testLog,
                         TestEvent("sleep", DelayAfter(testLog[Len(testLog)].ev)))
    /\ testPc' = "top"
    /\ UNCHANGED <<trackVars, queueVars, shutdownVars, testCap, testOpened,
                   testReleased, readOnClosed>>

\* main: imshow, "cv2.waitKey(1) & 0xFF == ord('q')", and on the quit key
\* the break with the release after the loop.
TestShow(quit) ==
    /\ testPc = "show"
    /\ Len(testLog) < MaxTestEvents
    /\ IF quit
       THEN /\ testReleased' = Release(testReleased, testCap)
            /\ testPc' = "exited"
            /\ testLog' = Append(testLog, TestEvent("quit", 0))
       ELSE /\ testPc' = "top"
            /\ UNCHANGED <<testReleased, testLog>>
    /\ UNCHANGED <<trackVars, queueVars, shutdownVars, testCap, testOpened,
                   readOnClosed>>

TestConnectOrPass == \E openOk \in BOOLEAN : TestTop(openOk)

TestReadFrame == \E ret \in BOOLEAN : TestRead(ret)

TestShowFrame == \E quit \in BOOLEAN : TestShow(quit)

NextTest ==
    \/ TestConnectOrPass
    \/ TestReadFrame
    \/ TestSleep
    \/ TestShowFrame

SpecTest == Init /\ [][NextTest]_vars

\* ============================================================== claims
IsFrame(f) == f.kind \in {"real", "placeholder"}

\* A recv() call has been started.
CallStarted == callOpens + callReads > 0

\* C1: with a wall clock that never goes backwards (Spec), the presentation
\* timestamps of the frames returned by successive recv() calls never
\* decrease, whether each frame is real or a placeholder.
C1_PtsNonDecreasing ==
    (IsFrame(prevFrame) /\ IsFrame(lastFrame)) => prevFrame.pts <= lastFrame.pts

\* A placeholder stamped after the clock moved, then a real frame from the
\* second session: a reconnect between two stamped frames.
C1_Witness ==
    /\ prevFrame.kind = "placeholder"
    /\ prevFrame.pts > 0
    /\ lastFrame.kind = "real"
    /\ nOpened = 2

\* C2 (as claimed): the timestamps of consecutively returned frames never
\* repeat and never regress, also when the wall clock of the later call is
\* equal to or earlier than that of the previous call (the later timestamp
\* is at least previous + 1).
C2_PtsStrictlyIncreasing ==
    (IsFrame(prevFrame) /\ IsFrame(lastFrame)) => lastFrame.pts >= prevFrame.pts + 1

\* C3: recv() never fails: whatever the open, read and conversion outcomes,
\* a completed call has returned a real frame or a placeholder, and no
\* exception has left recv().
C3_RecvAlwaysReturnsFrame ==
    /\ lastFrame.kind # "exception"
    /\ (pc = "idle" /\ CallStarted) => IsFrame(lastFrame)

\* The conversion of a valid frame raised and the call returned a placeholder.
C3_Witness ==
    /\ pc = "idle"
    /\ lastFrame.kind = "placeholder"
    /\ lastFrame.via = "conv_fail"

\* C4 (as claimed): every failed open attempt increases the failure counter
\* by exactly 1.
C4_FailedOpenIncrements ==
    [][(pc = "idle" /\ pc' = "sleep_open")
          => _consecutive_read_failures' = _consecutive_read_failures + 1]_vars

\* C5: while no open attempt has succeeded, every frame returned is a
\* placeholder, every call started has made exactly one open attempt, and
\* no read has been attempted on the capture device.
C5_NeverOpensOnlyPlaceholders ==
    nOpened = 0 =>
        /\ lastFrame.kind \in {"none", "placeholder"}
        /\ prevFrame.kind \in {"none", "placeholder"}
        /\ pc \in {"idle", "sleep_open"}
        /\ callReads = 0
        /\ (pc # "idle" \/ lastFrame.kind # "none") => callOpens = 1

\* Two placeholders returned and a third call suspended after its failed open.
C5_Witness ==
    /\ nOpened = 0
    /\ prevFrame.kind = "placeholder"
    /\ lastFrame.kind = "placeholder"
    /\ pc = "sleep_open"

\* C6: once _start_time has a value, no step changes it.
C6_EpochNeverChanges ==
    [][_start_time # None => _start_time' = _start_time]_vars

\* The epoch is still that of the first open after a reconnect at a later
\* time and a stop().
C6_Witness ==
    /\ _start_time = <<0>>
    /\ nOpened = 2
    /\ lastFrame.kind = "real"
    /\ lastFrame.pts > 0
    /\ stopped

\* C7 (as claimed): while no open attempt has succeeded, the epoch is unset.
C7_EpochOnlyAtOpen ==
    nOpened = 0 => _start_time = None

\* C7 (amended): the epoch is set by the first successful open or by the
\* stamping of the first placeholder, whichever comes first, and by nothing
\* else: it is unset while no open has succeeded and no frame was returned
\* (also after a failed open), and set from then on.
C7_EpochAtOpenOrFirstStamp ==
    /\ (nOpened = 0 /\ lastFrame.kind = "none") => _start_time = None
    /\ (nOpened > 0 \/ IsFrame(lastFrame)) => _start_time # None

\* An open attempt has failed, its placeholder is not stamped yet.
C7_Witness ==
    /\ pc = "sleep_open"
    /\ nOpened = 0
    /\ lastFrame.kind = "none"
    /\ _start_time = None
    /\ now > 0

\* C8: every session opened is released exactly once when a read on it
\* fails or the track is stopped and never again (the session cap holds is
\* not released, every other one exactly once); after a failed read the
\* session is released and dropped at once, and that call returns a
\* placeholder.
C8_SessionReleasedOnce ==
    /\ \A s \in 1..MaxSessions :
          released[s] = (IF s <= nOpened /\ cap # <<s>> THEN 1 ELSE 0)
    /\ pc \in {"sleep_read", "sleep_read_pace"} =>
          (nOpened >= 1 /\ cap = None /\ released[nOpened] = 1)
    /\ lastFrame.via = "read_fail" => lastFrame.kind = "placeholder"
    /\ lastFrame.via = "real" => lastFrame.kind = "real"

\* A real frame, then a failed read answered by a placeholder, then stop():
\* the one session was released once.
C8_Witness ==
    /\ prevFrame.kind = "real"
    /\ lastFrame.kind = "placeholder"
    /\ lastFrame.via = "read_fail"
    /\ stopped
    /\ nOpened = 1
    /\ released[1] = 1

\* C9: every placeholder returned has the shape of the most recent real
\* frame returned, or the default shape if there was none.
C9_PlaceholderAtLastRealDims ==
    lastFrame.kind = "placeholder" => <<lastFrame.w, lastFrame.h>> = lastRealDims

\* A real frame of 1280x720 followed by a placeholder of 1280x720.
C9_Witness ==
    /\ prevFrame.kind = "real"
    /\ prevFrame.w = 1280
    /\ lastFrame.kind = "placeholder"
    /\ lastFrame.w = 1280
    /\ lastFrame.h = 720

\* C10 (as claimed): after stop() no recv() call, later or resumed, opens
\* or reads the capture device.
C10_NoIoAfterStop == ~ioAfterStop

\* C11 (as claimed): stop() is cooperative: a stop() that runs while a
\* recv() call is suspended releases no capture session (the release waits
\* for the call to complete), and no session is ever released twice.
C11_ReleaseAfterInFlightCall ==
    [][/\ (pc # "idle" /\ pc' = pc) => released' = released
       /\ \A s \in 1..MaxSessions : released'[s] <= 1]_vars

\* The pacing wait of recv(), in ms.
PacingMs == 1000 \div target_fps

\* C12: every placeholder recv() returns was preceded, in the same call and
\* as the last thing before it was stamped, by a wait of at least
\* 1/target_fps, on each of the three fallback paths.
C12_PlaceholderPaced ==
    (pc = "idle" /\ lastFrame.kind = "placeholder") => lastWait >= PacingMs

\* Two placeholders in a row, the second after a failed read: its call slept
\* 0.1 s and then the pacing interval.
C12_Witness ==
    /\ pc = "idle"
    /\ prevFrame.kind = "placeholder"
    /\ lastFrame.kind = "placeholder"
    /\ lastFrame.via = "read_fail"
    /\ lastWait = PacingMs

\* A step that starts a recv() call.
RecvStep == pc = "idle" /\ (pc' # "idle" \/ _frame_counter' # _frame_counter)

C15_EscalationReached ==
    (failStreak # None /\ failStreak[1] > MaxConsecutiveReadFailures /\ pc = "idle")
        => (_consecutive_read_failures > MaxConsecutiveReadFailures /\ escalated)

\* C16 (as claimed): after a recv() call that returned a placeholder, no
\* capture session is open.
C16_NoSessionAfterPlaceholder ==
    (pc = "idle" /\ lastFrame.kind = "placeholder") => cap = None

\* C16 (amended): after a call that returned a placeholder because the open
\* or the read failed, no capture session is open; after one that returned
\* a placeholder because the processing of a valid frame failed, the
\* session is still open unless the track was stopped.
C16_NoSessionAfterOpenOrReadFailure ==
    (pc = "idle" /\ lastFrame.kind = "placeholder") =>
        /\ lastFrame.via \in {"open_fail", "read_fail"} => cap = None
        /\ (lastFrame.via = "conv_fail" /\ ~stopped) => CapIsOpened(cap, released)

\* A real frame, then a failed read answered by a placeholder: the session
\* is gone and the track is not stopped.
C16_Witness ==
    /\ pc = "idle"
    /\ ~stopped
    /\ prevFrame.kind = "real"
    /\ lastFrame.kind = "placeholder"
    /\ lastFrame.via = "read_fail"
    /\ cap = None

\* The pts the frame object f carries now: that of the cached placeholder
\* when f is that object, else the one it was returned with.
CurrentPts(f) == IF f.cached THEN placeholder_frame[1].pts ELSE f.pts

\* C17 (as claimed): a frame returned by an earlier recv() call still
\* carries the pts it was returned with after any later call.
C17_ReturnedFrameUnchanged ==
    IsFrame(prevFrame) => CurrentPts(prevFrame) = prevFrame.pts

\* C18: the placeholder image is created at most once between two changes
\* of (frame_width, frame_height), and a cached one has the current shape.
C18_TemplateCachedPerDims ==
    /\ synthSinceResize <= 1
    /\ placeholder_frame # None =>
          /\ synthSinceResize = 1
          /\ placeholder_frame[1].w = frame_width
          /\ placeholder_frame[1].h = frame_height

\* After a change of shape, two placeholders in a row from one image.
C18_Witness ==
    /\ frame_width = 1280
    /\ prevFrame.kind = "placeholder"
    /\ prevFrame.cached
    /\ lastFrame.kind = "placeholder"
    /\ synthSinceResize = 1

\* C19: _consecutive_read_failures is 0 or 1 in every state, it is 0 while a
\* capture is open, and the threshold comparison has never been true.
C19_CounterZeroOrOne ==
    /\ _consecutive_read_failures \in {0, 1}
    /\ CapIsOpened(cap, released) => _consecutive_read_failures = 0
    /\ ~escalated

\* The read on the second session failed as well: the counter is 1 again.
C19_Witness ==
    /\ pc = "sleep_read_pace"
    /\ nOpened = 2
    /\ _consecutive_read_failures = 1

\* C14 (as claimed): the queue never holds more than its bound and the
\* frame just received is always enqueued, never dropped.
C14_NewestAlwaysEnqueued ==
    /\ Qsize(feed, pipe) <= QueueMaxsize
    /\ ~droppedNewest

StrictlyIncreasing(q) == \A i \in 1..(Len(q) - 1) : q[i] < q[i + 1]

\* C20: the frames the display process has shown are frames received from
\* the track, in the order they were received, none of them twice; so are
\* the frames still queued, all of them later than every frame shown.
C20_DisplayedInProductionOrder ==
    /\ StrictlyIncreasing(displayed \o pipe \o feed)
    /\ \A i \in 1..Len(displayed) : displayed[i] \in 1..nReceived

\* The display process has shown frames on both sides of an eviction: a
\* frame, then a later one that is not its successor, nothing having been
\* dropped by queue.Full, and frames still queued behind them.
C20_Witness ==
    /\ Len(displayed) >= 2
    /\ displayed[2] > displayed[1] + 1
    /\ ~droppedNewest
    /\ Qsize(feed, pipe) >= 2

\* C21: receiver shutdown always completes: the blocking put of the None
\* sentinel in the cleanup finds a free slot, so the cleanup is never left
\* waiting for a slot after the display process has left its loop.
C21_ShutdownCompletes ==
    ~(/\ cleanPc = "put"
      /\ PutBlocks(feed, pipe)
      /\ dispPc = "exit")

IsConnect(e) == e.ev \in {"connect_ok", "connect_fail"}

IsFailure(e) == e.ev \in {"connect_fail", "read_fail"}

\* Sessions of the test loop that have been released exactly once: all but
\* the one the loop still holds open.
TestReleasedOnce ==
    \A i \in 1..MaxTestSessions :
        testReleased[i] = IF i <= testOpened /\ ~(testCap = <<i>> /\ testPc # "exited")
                          THEN 1 ELSE 0

\* C22: in the standalone test loop a read is attempted only on an open
\* capture; the connect attempt after a failed connect or a failed read
\* comes only after a RECONNECT_DELAY_SECONDS wait; a capture whose read
\* failed is released exactly once before reconnecting; and the loop ends
\* only on the quit key, with every capture released.
C22_TestLoopReconnects ==
    /\ ~readOnClosed
    /\ testPc = "read" => CapIsOpened(testCap, testReleased)
    /\ \A i \in 1..Len(testLog) :
          /\ (IsConnect(testLog[i]) /\ i > 1) =>
                /\ testLog[i - 1].ev = "sleep"
                /\ testLog[i - 1].secs >= RECONNECT_DELAY_SECONDS
                /\ i > 2 /\ IsFailure(testLog[i - 2])
          /\ (IsFailure(testLog[i]) /\ i < Len(testLog)) =>
                testLog[i + 1].ev = "sleep"
          /\ testLog[i].ev = "quit" => i = Len(testLog)
    /\ TestReleasedOnce
    /\ testPc = "exited" <=> (testLog # <<>> /\ testLog[Len(testLog)].ev = "quit")
    /\ testPc = "exited" => ~CapIsOpened(testCap, testReleased)

\* The loop has met a failed connect and a failed read, has reconnected
\* after each, and has ended on the quit key.
C22_Witness ==
    /\ testPc = "exited"
    /\ \E i, j \in 1..Len(testLog) :
          /\ testLog[i].ev = "connect_fail"
          /\ testLog[j].ev = "read_fail"
    /\ testOpened = 2
    /\ testReleased[1] = 1
    /\ testReleased[2] = 1

====
